---- MODULE Spec2Model ----
(***************************************************************************)
(* Case-conversion utilities (toKebabCase, refined toCamelCase, toDotCase, *)
(* few-shot toCamelCase) and the comment router (POST /, GET /:postId,     *)
(* DELETE /:id).                                                           *)
(*                                                                         *)
(* A JavaScript string is a sequence of characters; a character is a       *)
(* one-character TLA+ string, except for four non-ASCII code points that   *)
(* are written by name:                                                    *)
(*   "<e-acute>"  U+00E9, a precomposed lowercase letter (NFKD: e, U+0301) *)
(*   "<acute>"    U+0301, a combining mark (category M)                    *)
(*   "<zero>"     U+3007, a number that is not a decimal digit (Nl)        *)
(*   "<tm>"       U+2122, a symbol (So) whose NFKD form is the letters TM  *)
(* The regular expressions are those of an engine with Unicode property    *)
(* escapes; the catch branches of toKebabCase for older engines are not    *)
(* taken.                                                                  *)
(***************************************************************************)
EXTENDS Integers, Sequences, FiniteSets, TLC

VARIABLES input, res, again, store, reqs, freshIds

vars == <<input, res, again, store, reqs, freshIds>>

convVars == <<input, res, again>>

routerVars == <<store, reqs, freshIds>>

(***************************************************************************)
(* Bounds                                                                  *)
(***************************************************************************)
MaxLen == 3

MaxReqs == 3

(***************************************************************************)
(* Characters and the Unicode classes the regular expressions use          *)
(***************************************************************************)
LowerLetters == <<"a","b","c","d","e","f","g","h","i","j","k","l","m",
                  "n","o","p","q","r","s","t","u","v","w","x","y","z">>

UpperLetters == <<"A","B","C","D","E","F","G","H","I","J","K","L","M",
                  "N","O","P","Q","R","S","T","U","V","W","X","Y","Z">>

DecimalDigits == {"0","1","2","3","4","5","6","7","8","9"}

Range(f) == {f[i] : i \in DOMAIN f}

AsciiLower == Range(LowerLetters)

AsciiUpper == Range(UpperLetters)

\* \p{Ll}
IsLl(c) == c \in AsciiLower \cup {"<e-acute>"}

\* \p{Lu}
IsLu(c) == c \in AsciiUpper

\* \p{L}
IsL(c) == IsLl(c) \/ IsLu(c)

\* \p{Nd}
IsNd(c) == c \in DecimalDigits

\* \p{N}
IsN(c) == IsNd(c) \/ c = "<zero>"

\* \p{M}
IsM(c) == c = "<acute>"

\* \s, the characters String.prototype.trim removes
IsSpace(c) == c = " "

\* [A-Za-z0-9]
IsAsciiAlnum(c) == c \in AsciiLower \cup AsciiUpper \cup DecimalDigits

\* String.prototype.toLowerCase, one character
LowerChar(c) ==
    IF c \in AsciiUpper
    THEN LowerLetters[CHOOSE i \in 1..26 : UpperLetters[i] = c]
    ELSE c

\* String.prototype.toUpperCase, one character
UpperChar(c) ==
    IF c \in AsciiLower
    THEN UpperLetters[CHOOSE i \in 1..26 : LowerLetters[i] = c]
    ELSE c

ToLowerCase(s) == [i \in 1..Len(s) |-> LowerChar(s[i])]

\* s.slice(from - 1) in 1-based positions
Slice(s, from) == IF from > Len(s) THEN <<>> ELSE SubSeq(s, from, Len(s))

(***************************************************************************)
(* String.prototype.trim                                                   *)
(***************************************************************************)
RECURSIVE TrimStart(_)
TrimStart(s) ==
    IF s # <<>> /\ IsSpace(Head(s)) THEN TrimStart(Tail(s)) ELSE s

RECURSIVE TrimEnd(_)
TrimEnd(s) ==
    IF s # <<>> /\ IsSpace(s[Len(s)])
    THEN TrimEnd(SubSeq(s, 1, Len(s) - 1))
    ELSE s

Trim(s) == TrimEnd(TrimStart(s))

(***************************************************************************)
(* s.normalize('NFKD').replace(/\p{M}/gu, '')                              *)
(***************************************************************************)
NFKDChar(c) ==
    CASE c = "<e-acute>" -> <<"e", "<acute>">>
      [] c = "<tm>" -> <<"T", "M">>
      [] OTHER -> <<c>>

RECURSIVE NFKD(_)
NFKD(s) == IF s = <<>> THEN <<>> ELSE NFKDChar(Head(s)) \o NFKD(Tail(s))

StripMarks(s) == SelectSeq(s, LAMBDA c : ~IsM(c))

Normalize(s) == StripMarks(NFKD(s))

(***************************************************************************)
(* Character classes of the regular expressions, by name                   *)
(***************************************************************************)
InClass(cls, c) ==
    CASE cls = "[\\p{Ll}\\p{Nd}]" -> IsLl(c) \/ IsNd(c)
      [] cls = "[\\p{Ll}\\p{N}]"  -> IsLl(c) \/ IsN(c)
      [] cls = "\\p{Lu}"          -> IsLu(c)
      [] cls = "\\p{Ll}"          -> IsLl(c)
      [] cls = "\\p{L}"           -> IsL(c)
      [] cls = "\\p{N}"           -> IsN(c)
      [] cls = "[^\\p{L}\\p{N}]"  -> ~(IsL(c) \/ IsN(c))
      [] cls = "[^A-Za-z0-9]"     -> ~IsAsciiAlnum(c)
      [] cls = "\\s"              -> IsSpace(c)
      [] cls = "-"                -> c = "-"

(***************************************************************************)
(* Global regular-expression replaces.  A /g replace scans left to right   *)
(* and resumes after the end of each match, so matches never overlap.      *)
(***************************************************************************)

\* the same replace without the g flag: only the first match is replaced
RECURSIVE InsertBetweenFirstOnly(_, _, _, _)
InsertBetweenFirstOnly(s, first, second, sep) ==
    IF Len(s) < 2 THEN s
    ELSE IF InClass(first, s[1]) /\ InClass(second, s[2])
         THEN <<s[1], sep>> \o Tail(s)
         ELSE <<s[1]>> \o InsertBetweenFirstOnly(Tail(s), first, second, sep)

\* s.replace(/(first)(second)/g, '$1' + sep + '$2') for one-character classes
RECURSIVE InsertBetween(_, _, _, _)
InsertBetween(s, first, second, sep) ==
    IF Len(s) < 2 THEN s
    ELSE IF InClass(first, s[1]) /\ InClass(second, s[2])
         THEN <<s[1], sep, s[2]>> \o InsertBetween(Slice(s, 3), first, second, sep)
         ELSE <<s[1]>> \o InsertBetween(Tail(s), first, second, sep)

\* length of the longest prefix of s whose characters are all in class cls
RECURSIVE RunLength(_, _)
RunLength(s, cls) ==
    IF s # <<>> /\ InClass(cls, Head(s)) THEN 1 + RunLength(Tail(s), cls) ELSE 0

\* length of the longest prefix of s with no character in class cls
RECURSIVE GapLength(_, _)
GapLength(s, cls) ==
    IF s # <<>> /\ ~InClass(cls, Head(s)) THEN 1 + GapLength(Tail(s), cls) ELSE 0

\* s.replace(/(\p{Lu}+)(\p{Lu}\p{Ll})/gu, '$1-$2'): the greedy \p{Lu}+ gives
\* back one letter, so a match is a run of r >= 2 uppercase letters followed
\* by a lowercase letter, and the hyphen goes before the run's last letter.
RECURSIVE AcronymBoundary(_)
AcronymBoundary(s) ==
    IF s = <<>> THEN <<>>
    ELSE LET r == RunLength(s, "\\p{Lu}")
         IN IF r >= 2 /\ Len(s) > r /\ InClass("\\p{Ll}", s[r + 1])
            THEN SubSeq(s, 1, r - 1) \o <<"-", s[r], s[r + 1]>>
                 \o AcronymBoundary(Slice(s, r + 2))
            ELSE <<s[1]>> \o AcronymBoundary(Tail(s))

\* s.replace(/cls+/g, sep): every maximal run of class cls becomes one sep
RECURSIVE ReplaceRuns(_, _, _)
ReplaceRuns(s, cls, sep) ==
    IF s = <<>> THEN <<>>
    ELSE LET r == RunLength(s, cls)
         IN IF r > 0
            THEN <<sep>> \o ReplaceRuns(Slice(s, r + 1), cls, sep)
            ELSE <<s[1]>> \o ReplaceRuns(Tail(s), cls, sep)

\* s.split(/cls+/).filter(Boolean): the non-empty pieces between runs of cls
RECURSIVE SplitOn(_, _)
SplitOn(s, cls) ==
    IF s = <<>> THEN <<>>
    ELSE LET d == RunLength(s, cls)
         IN IF d > 0 THEN SplitOn(Slice(s, d + 1), cls)
            ELSE LET w == GapLength(s, cls)
                 IN <<SubSeq(s, 1, w)>> \o SplitOn(Slice(s, w + 1), cls)

\* words.join(sep), sep a string
RECURSIVE Join(_, _)
Join(words, sep) ==
    IF words = <<>> THEN <<>>
    ELSE IF Len(words) = 1 THEN words[1]
    ELSE words[1] \o sep \o Join(Tail(words), sep)

(***************************************************************************)
(* toKebabCase, chain_prompt.js                                            *)
(***************************************************************************)

\* Step 3 with the first replace ignoring case (/giu): a hyphen between any
\* letter or digit and a following letter
RECURSIVE HyphenateIgnoringCase(_)
HyphenateIgnoringCase(s) ==
    IF Len(s) < 2 THEN s
    ELSE IF (IsL(s[1]) \/ IsNd(s[1])) /\ IsL(s[2])
         THEN <<s[1], "-", s[2]>> \o HyphenateIgnoringCase(Slice(s, 3))
         ELSE <<s[1]>> \o HyphenateIgnoringCase(Tail(s))

KebabBoundariesIgnoringCase(s) == AcronymBoundary(HyphenateIgnoringCase(s))

\* Step 3: /([\p{Ll}\p{Nd}])(\p{Lu})/gu then /(\p{Lu}+)(\p{Lu}\p{Ll})/gu
KebabBoundaries(s) == AcronymBoundary(InsertBetween(s, "[\\p{Ll}\\p{Nd}]", "\\p{Lu}", "-"))

\* Step 4 as in the simple implementation: only whitespace runs become hyphens
KebabWhitespaceOnly(s) == ReplaceRuns(s, "\\s", "-")

\* Step 4: /[^\p{L}\p{N}]+/gu -> '-'
KebabDelimiters(s) == ReplaceRuns(s, "[^\\p{L}\\p{N}]", "-")

\* Step 5 without .replace(/^-|-$/g, '')
KeepEndHyphens(s) == s

\* .replace(/^-|-$/g, ''): one hyphen off each end
StripEndHyphens(s) ==
    LET a == IF s # <<>> /\ s[1] = "-" THEN Tail(s) ELSE s
    IN IF a # <<>> /\ a[Len(a)] = "-" THEN SubSeq(a, 1, Len(a) - 1) ELSE a

\* Step 5: .replace(/-+/g, '-').replace(/^-|-$/g, '').toLowerCase()
KebabFinish(s) == ToLowerCase(StripEndHyphens(ReplaceRuns(s, "-", "-")))

KebabString(s) == KebabFinish(KebabDelimiters(KebabBoundaries(Normalize(Trim(s)))))

(***************************************************************************)
(* toCamelCase and toDotCase, refined_prompt.js                            *)
(***************************************************************************)

\* the three chained boundary replaces, lines 145-148 and 265-268
RefinedBoundaries(s) ==
    InsertBetween(InsertBetween(InsertBetween(s, "[\\p{Ll}\\p{N}]", "\\p{Lu}", " "),
                                "\\p{L}", "\\p{N}", " "),
                  "\\p{N}", "\\p{L}", " ")

\* /[^\p{L}\p{N}]+/gu -> ' ', then split(/\s+/).filter(Boolean)
RefinedWords(s) ==
    SplitOn(ReplaceRuns(RefinedBoundaries(Normalize(s)), "[^\\p{L}\\p{N}]", " "),
            "\\s")

lowerFirst(word) == ToLowerCase(word)

\* capitalize without lowercasing the rest of the word
capitalizeFirstOnly(word) ==
    IF word = <<>> THEN <<>>
    ELSE IF IsN(word[1]) THEN word
         ELSE <<UpperChar(word[1])>> \o Slice(word, 2)

capitalize(word) ==
    IF word = <<>> THEN <<>>
    ELSE IF IsN(word[1])
         THEN <<word[1]>> \o ToLowerCase(Slice(word, 2))
         ELSE <<UpperChar(word[1])>> \o ToLowerCase(Slice(word, 2))

CamelRender(rawWords) ==
    lowerFirst(rawWords[1])
    \o Join([i \in 1..(Len(rawWords) - 1) |-> capitalize(rawWords[i + 1])], <<>>)

DotRender(words) == Join([i \in 1..Len(words) |-> ToLowerCase(words[i])], <<".">>)

(***************************************************************************)
(* toCamelCase, few_shot_prompt.js                                         *)
(***************************************************************************)
FewShotParts(str) == SplitOn(str, "[^A-Za-z0-9]")

FewShotSingle(single) == <<LowerChar(single[1])>> \o Slice(single, 2)

FewShotPart(part, index) ==
    LET lower == ToLowerCase(part)
    IN IF index = 0 THEN lower
       ELSE <<UpperChar(lower[1])>> \o Slice(lower, 2)

FewShotMany(parts) == Join([i \in 1..Len(parts) |-> FewShotPart(parts[i], i - 1)], <<>>)

(***************************************************************************)
(* JavaScript values passed to the functions, and what a call produces     *)
(***************************************************************************)

\* a string value
Str(s) == [typeof |-> "string", text |-> s]

\* 123, null and undefined; text is String(value)
NonStrings ==
    { [typeof |-> "number", text |-> <<"1","2","3">>],
      [typeof |-> "object", text |-> <<"n","u","l","l">>],
      [typeof |-> "undefined", text |-> <<"u","n","d","e","f","i","n","e","d">>] }

\* a call that has not been made
NotCalled == [kind |-> "none", value |-> <<>>, error |-> "", stages |-> {}]

\* return value; stages are the pipeline steps the call ran before returning
Return(s, stages) == [kind |-> "return", value |-> s, error |-> "", stages |-> stages]

\* throw new TypeError(...)
Throw(error, stages) == [kind |-> "throw", value |-> <<>>, error |-> error, stages |-> stages]

AllStages == {"trim", "normalize", "segment", "render"}

\* toKebabCase without its type guard: the argument is coerced with String()
toKebabCaseCoercing(in) == Return(KebabString(in.text), AllStages)

toKebabCase(in) ==
    IF in.typeof # "string" THEN Throw("TypeError", {})
    ELSE Return(KebabString(in.text), AllStages)

toCamelCase(in) ==
    IF in.typeof # "string" THEN Throw("TypeError", {})
    ELSE LET str == Trim(in.text)
         IN IF str = <<>> THEN Return(<<>>, {"trim"})
            ELSE LET rawWords == RefinedWords(str)
                 IN IF Len(rawWords) = 0
                    THEN Return(<<>>, {"trim", "normalize", "segment"})
                    ELSE Return(CamelRender(rawWords), AllStages)

toDotCase(in) ==
    IF in.typeof # "string" THEN Throw("TypeError", {})
    ELSE LET str == Trim(in.text)
         IN IF str = <<>> THEN Return(<<>>, {"trim"})
            ELSE LET words == RefinedWords(str)
                 IN IF Len(words) = 0
                    THEN Return(<<>>, {"trim", "normalize", "segment"})
                    ELSE Return(DotRender(words), AllStages)

fewShotToCamelCase(in) ==
    IF in.typeof # "string" THEN Return(<<>>, {})
    ELSE LET str == Trim(in.text)
         IN IF str = <<>> THEN Return(<<>>, {"trim"})
            ELSE LET parts == FewShotParts(str)
                 IN IF Len(parts) = 0 THEN Return(<<>>, {"trim", "segment"})
                    ELSE IF Len(parts) = 1
                    THEN Return(FewShotSingle(parts[1]), {"trim", "segment", "render"})
                    ELSE Return(FewShotMany(parts), {"trim", "segment", "render"})

Fns == {"toKebabCase", "toCamelCase", "toDotCase", "fewShotToCamelCase"}

Apply(fn, in) ==
    CASE fn = "toKebabCase" -> toKebabCase(in)
      [] fn = "toCamelCase" -> toCamelCase(in)
      [] fn = "toDotCase" -> toDotCase(in)
      [] fn = "fewShotToCamelCase" -> fewShotToCamelCase(in)

(***************************************************************************)
(* Inputs: every string over Alphabet up to MaxLen characters, the strings *)
(* of the embedded tests and documentation, and the non-string values      *)
(***************************************************************************)
Alphabet == {"a", "A", "1", " ", "-", ".", "<e-acute>", "<acute>"}

StringsUpTo(n) == UNION {[1..k -> Alphabet] : k \in 0..n}

Examples ==
    {<<"S","i","m","p","l","e"," ","T","e","s","t">>,
     <<"f","o","o","B","a","r","B","a","z">>,
     <<"P","a","s","c","a","l","C","a","s","e","I","n","p","u","t">>,
     <<"X","M","L","H","t","t","p">>,
     <<"X","M","L","H","t","t","p","R","e","q","u","e","s","t">>,
     <<"v","e","r","s","i","o","n","2","a","l","p","h","a">>,
     <<"1","s","t","P","l","a","c","e">>,
     <<"1","s","t">>,
     <<"<tm>">>,
     <<"a","<tm>","b">>,
     <<"1","2","3"," ","l","e","a","d","i","n","g"," ","d","i","g","i","t","s">>,
     <<"a","l","r","e","a","d","y","C","a","m","e","l","C","a","s","e">>,
     <<"a","l","r","e","a","d","y",".","d","o","t",".","c","a","s","e">>,
     <<"u","s","e","r","_","i","d">>,
     <<"S","C","R","E","E","N","_","N","A","M","E">>,
     <<"S","C","R","E","E","N">>,
     <<" "," ","H","T","T","P"," ","R","e","s","p","o","n","s","e","C","o","d","e"," ">>,
     <<"H","e","l","l","o","_","w","o","r","l","d","-","t","e","s","t">>,
     <<" "," ","m","u","l","t","i","p","l","e"," "," "," ","s","p","a","c","e","s","_","_","a","n","d","-","-","d","e","l","i","m","s","!","!"," ">>,
     <<"c","a","f","<e-acute>","-","a","u","-","l","a","i","t">>,
     <<"!","!","!">>,
     <<"_","_","-","-">>,
     <<"<zero>","A">>}

Inputs == {Str(s) : s \in StringsUpTo(MaxLen) \cup Examples} \cup NonStrings

(***************************************************************************)
(* The conversion functions as a state machine: an input is fixed, each    *)
(* function is called on it, and each function is called once more on the  *)
(* string it returned.                                                     *)
(***************************************************************************)
ConvInit ==
    /\ input \in Inputs
    /\ res = [f \in Fns |-> NotCalled]
    /\ again = [f \in Fns |-> NotCalled]

Call(fn) ==
    /\ res[fn].kind = "none"
    /\ res' = [res EXCEPT ![fn] = Apply(fn, input)]
    /\ UNCHANGED <<input, again>>

CallAgain(fn) ==
    /\ res[fn].kind = "return"
    /\ again[fn].kind = "none"
    /\ again' = [again EXCEPT ![fn] = Apply(fn, Str(res[fn].value))]
    /\ UNCHANGED <<input, res>>

CallKebab == Call("toKebabCase") /\ UNCHANGED routerVars

CallCamel == Call("toCamelCase") /\ UNCHANGED routerVars

CallDot == Call("toDotCase") /\ UNCHANGED routerVars

CallFewShot == Call("fewShotToCamelCase") /\ UNCHANGED routerVars

Reapply == (\E fn \in Fns : CallAgain(fn)) /\ UNCHANGED routerVars

(***************************************************************************)
(* The comment router, routes/api/comments                                 *)
(*                                                                         *)
(* store is the Comment collection.  reqs are the requests received, in    *)
(* order of arrival; a handler runs to its await, the database operation   *)
(* runs (or fails), and the handler resumes and answers.                   *)
(***************************************************************************)

\* strings mongoose.Types.ObjectId.isValid accepts
ObjectIds == {"c1", "c2"}

\* an id ObjectId.isValid rejects
InvalidIds == {"not-an-id"}

PostIds == {"p1"}

Comment(id, postId) == [id |-> id, postId |-> postId]

IdsOf(comments) == {c.id : c \in comments}

\* the ids for which a DELETE has been answered 204
Answered204 ==
    {reqs[i].param : i \in {j \in DOMAIN reqs : /\ reqs[j].method = "DELETE"
                                                /\ reqs[j].status = <<204>>}}

\* a request as its handler is entered; answered204 records, for a DELETE, whether
\* a 204 had already been sent for the same id when it arrived, and gone the
\* ids for which a 204 had been sent by then
Request(method, param) ==
    [method |-> method, param |-> param, pc |-> "start", result |-> "none",
     status |-> <<>>, body |-> {}, error |-> "",
     answered204 |-> \E i \in DOMAIN reqs :
                        /\ reqs[i].method = "DELETE"
                        /\ reqs[i].param = param
                        /\ reqs[i].status = <<204>>,
     gone |-> Answered204]

\* res.status(code).json(body) / res.sendStatus(code)
Respond(r, code, body) ==
    [r EXCEPT !.pc = "done", !.status = Append(@, code), !.body = body]

\* res.status(code).json({ error })
RespondError(r, code, error) ==
    [r EXCEPT !.pc = "done", !.status = Append(@, code), !.error = error]

\* router.delete, lines 214-220: up to the await
DeleteEnter(r) ==
    IF r.param \notin ObjectIds
    THEN RespondError(r, 400, "Invalid comment id")
    ELSE [r EXCEPT !.pc = "db"]

\* Comment.findById(id) in place of findByIdAndDelete: nothing is removed
FindByIdOnly(comments, id) == comments

\* Comment.findByIdAndDelete(id): the collection afterwards
FindByIdAndDelete(comments, id) == {c \in comments : c.id # id}

\* router.delete, lines 220-228: after the await
DeleteResume(r) ==
    CASE r.result = "error" -> RespondError(r, 500, "Internal server error")
      [] r.result = "null" -> RespondError(r, 404, "Comment not found")
      [] r.result = "doc" -> Respond(r, 204, {})

RouterInit ==
    /\ store \in {{}, {Comment("c1", "p1")}}
    /\ freshIds = ObjectIds \ IdsOf(store)
    /\ reqs = <<>>

\* a DELETE /:id arrives and its handler runs to the await or to the 400
RecvDelete ==
    \E id \in ObjectIds \cup InvalidIds :
        /\ Len(reqs) < MaxReqs
        /\ reqs' = Append(reqs, DeleteEnter(Request("DELETE", id)))
        /\ UNCHANGED <<store, freshIds>>

\* a POST / arrives: new Comment({text, postId}), comment.save() is awaited
RecvPost ==
    \E postId \in PostIds :
        /\ Len(reqs) < MaxReqs
        /\ reqs' = Append(reqs, [Request("POST", postId) EXCEPT !.pc = "db"])
        /\ UNCHANGED <<store, freshIds>>

\* a GET /:postId arrives: Comment.find({postId}) is awaited
RecvGet ==
    \E postId \in PostIds :
        /\ Len(reqs) < MaxReqs
        /\ reqs' = Append(reqs, [Request("GET", postId) EXCEPT !.pc = "db"])
        /\ UNCHANGED <<store, freshIds>>

\* the database runs the pending operation of request i
DbRun ==
    \E i \in DOMAIN reqs :
        /\ reqs[i].pc = "db"
        /\ CASE reqs[i].method = "DELETE" ->
                  /\ store' = FindByIdAndDelete(store, reqs[i].param)
                  /\ reqs' = [reqs EXCEPT ![i].pc = "resume",
                                          ![i].result =
                                              IF reqs[i].param \in IdsOf(store)
                                              THEN "doc" ELSE "null"]
                  /\ UNCHANGED freshIds
             [] reqs[i].method = "POST" ->
                  \E id \in freshIds :
                      /\ store' = store \cup {Comment(id, reqs[i].param)}
                      /\ freshIds' = freshIds \ {id}
                      /\ reqs' = [reqs EXCEPT ![i].pc = "resume",
                                              ![i].result = "saved",
                                              ![i].body = {id}]
             [] reqs[i].method = "GET" ->
                  /\ reqs' = [reqs EXCEPT ![i].pc = "resume",
                                          ![i].result = "docs",
                                          ![i].body =
                                              {c.id : c \in {d \in store :
                                                   d.postId = reqs[i].param}}]
                  /\ UNCHANGED <<store, freshIds>>

\* the pending database operation of request i fails: the awaited promise rejects
DbFail ==
    \E i \in DOMAIN reqs :
        /\ reqs[i].pc = "db"
        /\ reqs' = [reqs EXCEPT ![i].pc = "resume", ![i].result = "error"]
        /\ UNCHANGED <<store, freshIds>>

\* what a handler does when its await is over.  router.post and router.get
\* have no try/catch: when the awaited promise rejects, the handler's promise
\* rejects and the handler sends nothing; an Express that forwards rejected
\* handler promises to its error handler (version 5) then answers 500, an
\* Express that ignores them (version 4) leaves the request unanswered.
ResumeOutcomes(r) ==
    CASE r.method = "DELETE" -> {DeleteResume(r)}
      [] r.result = "error" ->
             {[r EXCEPT !.pc = "rejected"],
              RespondError(r, 500, "Internal Server Error")}
      [] r.method = "POST" -> {Respond(r, 201, r.body)}
      [] r.method = "GET" -> {Respond(r, 200, r.body)}

\* the handler of request i continues after its await
Resume ==
    \E i \in DOMAIN reqs :
        /\ reqs[i].pc = "resume"
        /\ \E next \in ResumeOutcomes(reqs[i]) :
               reqs' = [reqs EXCEPT ![i] = next]
        /\ UNCHANGED <<store, freshIds>>

ConvIdle ==
    /\ input = Str(<<>>)
    /\ res = [f \in Fns |-> NotCalled]
    /\ again = [f \in Fns |-> NotCalled]

RouterStart == RouterInit /\ ConvIdle

RouterNext ==
    \/ RecvDelete /\ UNCHANGED convVars
    \/ RecvPost /\ UNCHANGED convVars
    \/ RecvGet /\ UNCHANGED convVars
    \/ DbRun /\ UNCHANGED convVars
    \/ DbFail /\ UNCHANGED convVars
    \/ Resume /\ UNCHANGED convVars

RouterSpec == RouterStart /\ [][RouterNext]_vars

\* a pending database operation ends, one way or the other, and a handler
\* whose await is over is resumed by the event loop
RouterFairness ==
    /\ WF_vars((DbRun \/ DbFail) /\ UNCHANGED convVars)
    /\ WF_vars(Resume /\ UNCHANGED convVars)

FairRouterSpec == RouterSpec /\ RouterFairness

RouterIdle ==
    /\ store = {}
    /\ reqs = <<>>
    /\ freshIds = {}

Init == ConvInit /\ RouterIdle

Next ==
    \/ CallKebab
    \/ CallCamel
    \/ CallDot
    \/ CallFewShot
    \/ Reapply

Spec == Init /\ [][Next]_vars

\* the three functions of the shared pipeline, each called once on the input
DirectNext ==
    \/ CallKebab
    \/ CallCamel
    \/ CallDot

DirectSpec == Init /\ [][DirectNext]_vars

(***************************************************************************)
(* Properties                                                              *)
(***************************************************************************)
Called(fn) == res[fn].kind # "none"

Guarded == {"toKebabCase", "toCamelCase", "toDotCase"}

ThrowsTypeErrorFirst(fn) ==
    /\ res[fn].kind = "throw"
    /\ res[fn].error = "TypeError"
    /\ res[fn].value = <<>>
    /\ res[fn].stages = {}

\* C1 as stated: every conversion function, the few-shot toCamelCase included,
\* answers a non-string argument with a TypeError raised before any trimming,
\* normalization or segmentation, and never with a string.
C1_EveryFunctionThrows ==
    \A fn \in Fns :
        (input.typeof # "string" /\ Called(fn)) => ThrowsTypeErrorFirst(fn)

\* C1 amended: toKebabCase, toDotCase and the refined toCamelCase answer a
\* non-string argument with a TypeError raised before any trimming,
\* normalization or segmentation; the few-shot toCamelCase does not throw and
\* returns the empty string, likewise before any processing.
C1_GuardedFunctionsThrow ==
    input.typeof # "string" =>
        /\ \A fn \in Guarded : Called(fn) => ThrowsTypeErrorFirst(fn)
        /\ Called("fewShotToCamelCase") =>
               /\ res["fewShotToCamelCase"].kind = "return"
               /\ res["fewShotToCamelCase"].value = <<>>
               /\ res["fewShotToCamelCase"].stages = {}

C1_Witness ==
    /\ input.typeof = "number"
    /\ \A fn \in Guarded : res[fn].kind = "throw"
    /\ res["fewShotToCamelCase"].kind = "return"

\* value.split(ch) for a one-character separator
RECURSIVE SplitAt(_, _)
SplitAt(s, ch) ==
    IF \A i \in 1..Len(s) : s[i] # ch THEN <<s>>
    ELSE LET n == CHOOSE i \in 1..Len(s) :
                      s[i] = ch /\ \A j \in 1..(i - 1) : s[j] # ch
         IN <<SubSeq(s, 1, n - 1)>> \o SplitAt(Slice(s, n + 1), ch)

AllReturned == \A fn \in Guarded : res[fn].kind = "return"

\* the camelCase rendering of a token sequence: tokens after the first start
\* with an uppercase letter (or a number), everything else is lowercase
CamelOf(tokens) ==
    Join([i \in 1..Len(tokens) |->
              IF i = 1 THEN tokens[i]
              ELSE <<UpperChar(tokens[i][1])>> \o Slice(tokens[i], 2)], <<>>)

\* C2: on every string the three functions cut the same tokens:
\* toKebabCase(s).split('-') and toDotCase(s).split('.') are the same sequence,
\* and toCamelCase(s) is that sequence rendered in camelCase.
C2_StyleEquivalence ==
    (input.typeof = "string" /\ AllReturned) =>
        LET k == SplitAt(res["toKebabCase"].value, "-")
            d == SplitAt(res["toDotCase"].value, ".")
        IN /\ k = d
           /\ res["toCamelCase"].value = CamelOf(d)

XMLHttpRequest == <<"X","M","L","H","t","t","p","R","e","q","u","e","s","t">>

\* a run of two or more uppercase letters followed by lowercase letters only
IsAcronymThenWord(s) ==
    LET r == RunLength(s, "\\p{Lu}")
    IN /\ r >= 2
       /\ Len(s) > r
       /\ \A i \in (r + 1)..Len(s) : s[i] \in AsciiLower

\* C3: all three functions split a run of uppercase letters that is followed
\* by a lowercase letter before the run's last letter: "XMLHttpRequest" gives
\* xml-http-request, xmlHttpRequest and xml.http.request, and any input
\* UU..Ull..l gives the two tokens UU..  and Ull..l.
C3_AcronymBoundary ==
    /\ input = Str(XMLHttpRequest) =>
          /\ Called("toKebabCase") =>
                 res["toKebabCase"].value = <<"x","m","l","-","h","t","t","p","-","r","e","q","u","e","s","t">>
          /\ Called("toCamelCase") =>
                 res["toCamelCase"].value = <<"x","m","l","H","t","t","p","R","e","q","u","e","s","t">>
          /\ Called("toDotCase") =>
                 res["toDotCase"].value = <<"x","m","l",".","h","t","t","p",".","r","e","q","u","e","s","t">>
    /\ (input.typeof = "string" /\ IsAcronymThenWord(input.text)) =>
          LET s == input.text
              r == RunLength(s, "\\p{Lu}")
              acronym == ToLowerCase(SubSeq(s, 1, r - 1))
              word == ToLowerCase(Slice(s, r))
          IN /\ Called("toKebabCase") =>
                    res["toKebabCase"].value = acronym \o <<"-">> \o word
             /\ Called("toDotCase") =>
                    res["toDotCase"].value = acronym \o <<".">> \o word
             /\ Called("toCamelCase") =>
                    res["toCamelCase"].value = CamelOf(<<acronym, word>>)

Version2Alpha == <<"v","e","r","s","i","o","n","2","a","l","p","h","a">>

FirstSt == <<"1","s","t">>

\* C4: all three functions put a word boundary between a letter and an
\* adjacent digit, in both directions: "version2alpha" gives version-2-alpha,
\* version.2.alpha and version2Alpha; "1st" gives the tokens 1 and st; and any
\* two-character input of a letter and a digit gives two tokens.
C4_LetterDigitBoundary ==
    /\ input = Str(Version2Alpha) =>
          /\ Called("toKebabCase") =>
                 res["toKebabCase"].value = <<"v","e","r","s","i","o","n","-","2","-","a","l","p","h","a">>
          /\ Called("toDotCase") =>
                 res["toDotCase"].value = <<"v","e","r","s","i","o","n",".","2",".","a","l","p","h","a">>
          /\ Called("toCamelCase") =>
                 res["toCamelCase"].value = <<"v","e","r","s","i","o","n","2","A","l","p","h","a">>
    /\ input = Str(FirstSt) =>
          /\ Called("toKebabCase") => res["toKebabCase"].value = <<"1","-","s","t">>
          /\ Called("toDotCase") => res["toDotCase"].value = <<"1",".","s","t">>
          /\ Called("toCamelCase") => res["toCamelCase"].value = <<"1","S","t">>
    /\ ( /\ input.typeof = "string"
         /\ Len(input.text) = 2
         /\ \/ IsL(input.text[1]) /\ IsNd(input.text[2])
            \/ IsNd(input.text[1]) /\ IsL(input.text[2]) ) =>
          LET a == <<LowerChar(input.text[1])>>
              b == <<LowerChar(input.text[2])>>
          IN /\ Called("toKebabCase") => res["toKebabCase"].value = a \o <<"-">> \o b
             /\ Called("toDotCase") => res["toDotCase"].value = a \o <<".">> \o b
             /\ Called("toCamelCase") => res["toCamelCase"].value = CamelOf(<<a, b>>)

\* C5: toKebabCase and toDotCase are idempotent: called on its own output,
\* each returns that output again.
C5_Idempotent ==
    \A fn \in {"toKebabCase", "toDotCase"} :
        again[fn].kind # "none" =>
            /\ again[fn].kind = "return"
            /\ again[fn].value = res[fn].value

C5_Witness ==
    /\ \A fn \in {"toKebabCase", "toDotCase"} :
           /\ again[fn].kind = "return"
           /\ Len(SplitAt(res[fn].value, IF fn = "toKebabCase" THEN "-" ELSE ".")) >= 2
    /\ input.text # res["toKebabCase"].value
    /\ input.text # res["toDotCase"].value

NoLetterNoDigit(s) == \A i \in 1..Len(s) : ~IsL(s[i]) /\ ~IsN(s[i])

WellJoined(value, join) ==
    /\ \A i \in 1..Len(value) :
           \/ value[i] = join
           \/ IsLl(value[i])
           \/ IsN(value[i])
    /\ value # <<>> => value[1] # join /\ value[Len(value)] # join
    /\ \A i \in 1..(Len(value) - 1) : ~(value[i] = join /\ value[i + 1] = join)

\* C7: the output of toKebabCase (toDotCase) holds only lowercase letters,
\* digits and '-' ('.'); it never starts or ends with the join character, never
\* has two join characters in a row, and never holds a space, an underscore,
\* other punctuation or an uppercase letter.
C7_OutputShape ==
    /\ res["toKebabCase"].kind = "return" => WellJoined(res["toKebabCase"].value, "-")
    /\ res["toDotCase"].kind = "return" => WellJoined(res["toDotCase"].value, ".")

C7_Witness ==
    /\ input.typeof = "string"
    /\ \E i \in 1..Len(input.text) : IsLu(input.text[i])
    /\ \E i \in 1..Len(input.text) : input.text[i] \in {".", "_", "!"}
    /\ Len(SplitAt(res["toKebabCase"].value, "-")) >= 2
    /\ Len(SplitAt(res["toDotCase"].value, ".")) >= 2

\* the character the camel rule gives character j of token k
CamelChar(tokens, k, j) ==
    LET c == tokens[k][j]
    IN IF k > 1 /\ j = 1
       THEN IF IsN(c) THEN c ELSE UpperChar(c)
       ELSE LowerChar(c)

CamelExpected(tokens) ==
    Join([k \in 1..Len(tokens) |->
              [j \in 1..Len(tokens[k]) |-> CamelChar(tokens, k, j)]], <<>>)

\* ASCII letters only, no two uppercase letters in a row
IsHumped(s) ==
    /\ s # <<>>
    /\ \A i \in 1..Len(s) : s[i] \in AsciiLower \cup AsciiUpper
    /\ \A i \in 1..(Len(s) - 1) : ~(IsLu(s[i]) /\ IsLu(s[i + 1]))

C10_FewShotCasing ==
    (input.typeof = "string" /\ Called("fewShotToCamelCase")) =>
        /\ res["fewShotToCamelCase"].kind = "return"
        /\ res["fewShotToCamelCase"].value =
               CamelExpected(FewShotParts(Trim(input.text)))

(***************************************************************************)
(* Properties of the comment router                                        *)
(***************************************************************************)
IsDelete(r) == r.method = "DELETE"

\* the one response of an answered DELETE is the one its case calls for
DeleteAnswer(r) ==
    /\ Len(r.status) <= 1
    /\ r.pc = "done" <=> Len(r.status) = 1
    /\ r.status # <<>> =>
          /\ r.status[1] \in {400, 404, 204, 500}
          /\ r.status[1] = 400 <=> r.param \notin ObjectIds
          /\ r.status[1] = 404 <=> r.result = "null"
          /\ r.status[1] = 204 <=> r.result = "doc"
          /\ r.status[1] = 500 <=> r.result = "error"
          /\ r.status[1] # 204 <=> r.error # ""
    /\ r.param \notin ObjectIds => r.result = "none"

\* C9 as stated: a DELETE is answered 400, 404, 204 or 500 according to its
\* case, a deleted comment stays out of the store, and every DELETE of an id
\* that arrives after a 204 for that id is answered 404.
C9_LaterDeleteIs404 ==
    \A i \in DOMAIN reqs :
        IsDelete(reqs[i]) =>
            /\ DeleteAnswer(reqs[i])
            /\ reqs[i].status = <<204>> => reqs[i].param \notin IdsOf(store)
            /\ (reqs[i].answered204 /\ reqs[i].status # <<>>) =>
                   reqs[i].status = <<404>>

C9Step ==
    /\ \A i \in DOMAIN reqs' :
           IsDelete(reqs'[i]) =>
               /\ DeleteAnswer(reqs'[i])
               /\ reqs'[i].status = <<204>> => reqs'[i].param \notin IdsOf(store')
               /\ (reqs'[i].answered204 /\ reqs'[i].status # <<>>) =>
                      \/ reqs'[i].status = <<404>>
                      \/ reqs'[i].status = <<500>> /\ reqs'[i].result = "error"
    /\ \A i \in DOMAIN reqs' :
           (IsDelete(reqs'[i]) /\ reqs'[i].status # <<>>
              /\ (i \notin DOMAIN reqs \/ reqs[i].status = <<>>)) => store' = store
    /\ \A i \in DOMAIN reqs :
           (IsDelete(reqs[i]) /\ reqs[i].result = "none") =>
               CASE reqs'[i].result = "doc" ->
                       /\ reqs[i].param \in IdsOf(store)
                       /\ store' = {c \in store : c.id # reqs[i].param}
                 [] reqs'[i].result = "null" ->
                       /\ reqs[i].param \notin IdsOf(store)
                       /\ store' = store
                 [] reqs'[i].result = "error" -> store' = store
                 [] OTHER -> TRUE

\* C9 amended: a DELETE gets exactly one response: 400 with an error body when
\* the id is no valid ObjectId (the store is not touched); 404 with an error
\* body when no comment has that id (store unchanged); 204 when the comment
\* existed, which is then removed and stays out of the store; 500 with an error
\* body when the database operation throws; and a DELETE of an id that arrives
\* after a 204 for that id is answered 404, or 500 when its database operation
\* throws.
C9_DeleteResponses == [][C9Step]_vars

C9_Witness ==
    \E i, j, k \in DOMAIN reqs :
        /\ reqs[i].status = <<204>>
        /\ reqs[j].param = reqs[i].param
        /\ reqs[j].answered204
        /\ reqs[j].status = <<404>>
        /\ reqs[k].status = <<400>>
        /\ IdsOf(store) = {}

(***************************************************************************)
(* Word boundaries, read off the outputs                                   *)
(***************************************************************************)

\* the text the segmentation works on
Segmented(in) == Normalize(Trim(in.text))

IsWordChar(c) == IsL(c) \/ IsN(c)

\* how many letters and digits s holds up to position i
Ordinal(s, i) == Cardinality({j \in 1..i : IsWordChar(s[j])})

\* the k for which a joined output has a join character after its k-th
\* letter or digit
Cuts(value, join) ==
    {Cardinality({q \in 1..p : value[q] # join}) :
         p \in {p \in 1..Len(value) : value[p] = join}}

\* the output starts a new word after the letter or digit at position i of
\* the segmented text: a join character there (kebab, dot), an uppercase
\* letter as the next character (camel)
BoundaryAfter(fn, s, i) ==
    LET k == Ordinal(s, i)
        v == res[fn].value
    IN CASE fn = "toKebabCase" -> k \in Cuts(v, "-")
         [] fn = "toDotCase" -> k \in Cuts(v, ".")
         [] fn = "toCamelCase" -> k < Len(v) /\ IsLu(v[k + 1])

\* the output holds the letters and digits of the segmented text, in order
KeepsWordChars(fn, s) ==
    LET v == res[fn].value
        join == CASE fn = "toKebabCase" -> "-"
                  [] fn = "toDotCase" -> "."
                  [] fn = "toCamelCase" -> ""
    IN ToLowerCase(SelectSeq(v, LAMBDA c : c # join))
           = ToLowerCase(SelectSeq(s, IsWordChar))

fooBarBaz == <<"f","o","o","B","a","r","B","a","z">>

IsDelimiter(c) == ~IsWordChar(c)

\* the maximal runs of non-letter/non-digit characters of s, as <<first, last>>
DelimiterRuns(s) ==
    {ab \in (1..Len(s)) \X (1..Len(s)) :
        /\ ab[1] <= ab[2]
        /\ \A i \in ab[1]..ab[2] : IsDelimiter(s[i])
        /\ ab[1] > 1 => ~IsDelimiter(s[ab[1] - 1])
        /\ ab[2] < Len(s) => ~IsDelimiter(s[ab[2] + 1])}

\* a run that normalization leaves free of letters and digits
IsInert(run) == \A i \in DOMAIN Normalize(run) : IsDelimiter(Normalize(run)[i])

\* an inert run of which normalization leaves something
IsSolid(run) == IsInert(run) /\ Normalize(run) # <<>>

\* the runs put in place of a run of the input, or added at its ends
OtherRuns == { <<" ">>, <<".">>, <<"<acute>">>, <<"<tm>">>, <<"_", "-">> }

\* s with one inner run replaced by a run of with
InnerVariants(s, from, with) ==
    {SubSeq(s, 1, ab[1] - 1) \o r \o Slice(s, ab[2] + 1) :
         ab \in {x \in from : x[1] > 1 /\ x[2] < Len(s)}, r \in with}

\* s with a run of with added at the start or the end, or with its run at the
\* start or the end removed when it is one of from
EndVariants(s, from, with) ==
    {r \o s : r \in with} \cup {s \o r : r \in with}
    \cup {Slice(s, ab[2] + 1) : ab \in {x \in from : x[1] = 1}}
    \cup {SubSeq(s, 1, ab[1] - 1) : ab \in {x \in from : x[2] = Len(s)}}

\* no empty token and no doubled join character in a joined output
NoEmptyToken(value, join) ==
    value # <<>> => \A k \in DOMAIN SplitAt(value, join) : SplitAt(value, join)[k] # <<>>

SameOnAll(fn, variants) ==
    \A v \in variants :
        /\ Apply(fn, Str(v)).kind = res[fn].kind
        /\ Apply(fn, Str(v)).value = res[fn].value

\* C12 as stated: replacing any inner maximal run of non-letter/non-digit
\* characters by any other such run, or adding or removing such a run at the
\* start or the end, leaves the output of each conversion function unchanged,
\* and no run gives an empty token or a doubled join character.
C12_AnyRunCollapses ==
    input.typeof = "string" =>
        \A fn \in Guarded :
            res[fn].kind = "return" =>
                /\ SameOnAll(fn, InnerVariants(input.text, DelimiterRuns(input.text),
                                               OtherRuns))
                /\ SameOnAll(fn, EndVariants(input.text, DelimiterRuns(input.text),
                                             OtherRuns))
                /\ fn = "toKebabCase" => NoEmptyToken(res[fn].value, "-")
                /\ fn = "toDotCase" => NoEmptyToken(res[fn].value, ".")

\* the maximal runs of s that are inert, and those that are solid
InertRuns(s) == {ab \in DelimiterRuns(s) : IsInert(SubSeq(s, ab[1], ab[2]))}

SolidRuns(s) == {ab \in DelimiterRuns(s) : IsSolid(SubSeq(s, ab[1], ab[2]))}

\* C12 amended: replacing any inner maximal run of non-letter/non-digit
\* characters by any other such run, both runs being ones that normalization
\* (NFKD, combining marks removed) leaves non-empty and free of letters and
\* digits, or adding or removing at the start or the end a run that
\* normalization leaves free of letters and digits, leaves the output of each
\* conversion function unchanged, and no run gives an empty token or a
\* doubled join character.
C12_SolidRunCollapses ==
    input.typeof = "string" =>
        \A fn \in Guarded :
            res[fn].kind = "return" =>
                /\ SameOnAll(fn, InnerVariants(input.text, SolidRuns(input.text),
                                               {r \in OtherRuns : IsSolid(r)}))
                /\ SameOnAll(fn, EndVariants(input.text, InertRuns(input.text),
                                             {r \in OtherRuns : IsInert(r)}))
                /\ fn = "toKebabCase" => NoEmptyToken(res[fn].value, "-")
                /\ fn = "toDotCase" => NoEmptyToken(res[fn].value, ".")

C12_Witness ==
    /\ input = Str(<<" "," ","m","u","l","t","i","p","l","e"," "," "," ","s","p","a","c","e","s","_","_","a","n","d","-","-","d","e","l","i","m","s","!","!"," ">>)
    /\ AllReturned
    /\ res["toKebabCase"].value = Apply("toKebabCase",
           Str(<<"m","u","l","t","i","p","l","e",".","s","p","a","c","e","s"," ","a","n","d","_","-","d","e","l","i","m","s">>)).value

\* C13: every request the router accepts (POST /, GET /:postId, DELETE /:id)
\* eventually gets exactly one response, also when its database operation
\* fails: no request stays without a response and none gets two.
C13_ExactlyOneResponse ==
    /\ [](\A i \in DOMAIN reqs : Len(reqs[i].status) <= 1)
    /\ \A i \in 1..MaxReqs :
           [](i \in DOMAIN reqs =>
                  <>(i \in DOMAIN reqs /\ Len(reqs[i].status) = 1))

DeletesOf(id) ==
    {i \in DOMAIN reqs : reqs[i].method = "DELETE" /\ reqs[i].param = id}

\* C14: however concurrent DELETE requests for one comment id interleave, at
\* most one of them is answered 204 and every other one that is answered gets
\* 404, or 500 when its database operation failed; and a GET /:postId that
\* arrives after a DELETE was answered 204 does not list the deleted comment.
C14_OneDeleteWins ==
    /\ \A id \in ObjectIds :
           \A i, j \in DeletesOf(id) :
               (i # j /\ reqs[i].status = <<204>> /\ reqs[j].status # <<>>) =>
                   \/ reqs[j].status = <<404>>
                   \/ reqs[j].status = <<500>> /\ reqs[j].result = "error"
    /\ \A g \in DOMAIN reqs :
           (reqs[g].method = "GET" /\ reqs[g].result = "docs") =>
               reqs[g].body \cap reqs[g].gone = {}

\* two DELETEs of one id that were both pending, one answered 204 and the
\* other 404, and a later GET of the comment's post answered 200
C14_Witness ==
    \E i, j, g \in DOMAIN reqs :
        /\ i # j
        /\ reqs[i].method = "DELETE" /\ reqs[i].status = <<204>>
        /\ reqs[j].method = "DELETE" /\ reqs[j].param = reqs[i].param
        /\ ~reqs[j].answered204
        /\ reqs[j].status = <<404>>
        /\ reqs[g].method = "GET"
        /\ reqs[i].param \in reqs[g].gone
        /\ reqs[g].status = <<200>>

====
